---- MODULE Spec2Model ----
(***************************************************************************)
(* Conversation registry and conversation lifecycle of the Axis bot.       *)
(*                                                                         *)
(* The registry is  Handler::active_conversations, a                       *)
(* DashMap<ChannelId, ConversationState>.  A DashMap is a set of shards,   *)
(* each behind its own read/write lock: get() hands out a guard that keeps *)
(* the shard read-locked, get_mut() one that keeps it write-locked, and    *)
(* insert()/remove() take the write lock for the length of the call.       *)
(* The guards a task holds are part of the state, since remove() called by *)
(* a task that still holds a guard into the same shard waits on itself.    *)
(*                                                                         *)
(*   Spec     tasks calling the registry methods of Handler concurrently   *)
(*   SpecMsg  the spawned per-message tasks of Handler::message            *)
(*   SpecBg   one message task at a time next to the background sweep task *)
(*            of Handler::ready, with the scheduler's fairness             *)
(*   SpecMain the message handlers of the main.rs revision                  *)
(*   SpecBot  the message task of bot.rs when bots write messages too       *)
(*   SpecGate the message task of bot.rs in a guild with an AiGuildConfig   *)
(*   SpecAi   the functions of GeminiClient and the handler's decisions    *)
(*            built on them, applied to inputs drawn from bounded sets     *)
(*   SpecCfg  the aiconfig command, invoked again and again                *)
(***************************************************************************)
EXTENDS Integers, FiniteSets, Sequences, TLC

\* ------------------------------------------------------------------ bounds
MaxTime == 60          \* the clock stops advancing here (minutes)
ClockStep == 30        \* granularity of the clock (minutes)
MaxMsgs == 3           \* messages delivered by the gateway in one run
NumShards == 2         \* shards of the DashMap that are modelled

\* ------------------------------------------------------- program constants
TimeoutMinutes == 30   \* is_expired(30)

Channels == {"C", "D"}
Users == {"U", "V"}
Tasks == {"t1", "t2"}
Bg == "bg"             \* the background sweep task of Handler::ready
Procs == Tasks \cup {Bg}
NoTask == "none"
Shards == 0 .. (NumShards - 1)

VARIABLES
    active_conversations, \* the registry: a set of entries [channel, user_id, last_activity]
    now,                  \* Instant::now(), in minutes
    shard_of,             \* the shard each channel hashes to (shards are interchangeable: C is in shard 0)
    rguard,               \* per shard: tasks holding a read guard (Ref)
    wguard,               \* per shard: the task holding the write guard (RefMut), or NoTask
    pc,                   \* position of each task
    call,                 \* what each task is running: [op, channel, user]
    ret,                  \* the task's last completed registry call and its return value
    to_remove,            \* the sweep's Vec of collected keys
    scan,                 \* next shard the sweep's iterator visits
    msg,                  \* the message a handler task is processing
    has_active_convo,     \* the handler's local has_active_convo
    intent,               \* what the classifier answered for the message
    io,                   \* outcomes of the handler's external calls: [gen, deliver]
    sent,                 \* replies the handler tried to send for its message
    received,             \* messages delivered so far
    guilds,               \* AiConfiguration::guilds: the AiGuildConfig stored per guild
    config_file,          \* what ai_config.json holds
    data,                 \* ctx.data, the TypeMap: the keys that are present
    data_lock,            \* the commands holding a read guard of ctx.data
    config_lock,          \* the command holding the write guard of the AiConfigStore lock
    cmd,                  \* the aiconfig command: its position, arguments and locals
    ai_in,                \* arguments and remote outcome of a call into GeminiClient
    ai_out                \* the function last applied to ai_in and what it returned

cfgVars == << config_file, data, data_lock, config_lock, cmd >>

vars == << active_conversations, now, shard_of, rguard, wguard, pc, call, ret,
           to_remove, scan, msg, has_active_convo, intent, io, sent, received,
           guilds, cfgVars, ai_in, ai_out >>

msgVars == << msg, has_active_convo, intent, io, sent, received >>

\* ------------------------------------------------------------------ strings
\* a string is the sequence of its characters
Lower(ch) ==
    CASE ch = "A" -> "a" [] ch = "B" -> "b" [] ch = "C" -> "c" [] ch = "D" -> "d"
      [] ch = "E" -> "e" [] ch = "F" -> "f" [] ch = "G" -> "g" [] ch = "H" -> "h"
      [] ch = "I" -> "i" [] ch = "J" -> "j" [] ch = "K" -> "k" [] ch = "L" -> "l"
      [] ch = "M" -> "m" [] ch = "N" -> "n" [] ch = "O" -> "o" [] ch = "P" -> "p"
      [] ch = "Q" -> "q" [] ch = "R" -> "r" [] ch = "S" -> "s" [] ch = "T" -> "t"
      [] ch = "U" -> "u" [] ch = "V" -> "v" [] ch = "W" -> "w" [] ch = "X" -> "x"
      [] ch = "Y" -> "y" [] ch = "Z" -> "z" [] OTHER -> ch

Upper(ch) ==
    CASE ch = "a" -> "A" [] ch = "b" -> "B" [] ch = "c" -> "C" [] ch = "d" -> "D"
      [] ch = "e" -> "E" [] ch = "f" -> "F" [] ch = "g" -> "G" [] ch = "h" -> "H"
      [] ch = "i" -> "I" [] ch = "j" -> "J" [] ch = "k" -> "K" [] ch = "l" -> "L"
      [] ch = "m" -> "M" [] ch = "n" -> "N" [] ch = "o" -> "O" [] ch = "p" -> "P"
      [] ch = "q" -> "Q" [] ch = "r" -> "R" [] ch = "s" -> "S" [] ch = "t" -> "T"
      [] ch = "u" -> "U" [] ch = "v" -> "V" [] ch = "w" -> "W" [] ch = "x" -> "X"
      [] ch = "y" -> "Y" [] ch = "z" -> "Z" [] OTHER -> ch

\* str::to_lowercase, str::to_uppercase
ToLowercase(str) == [i \in 1 .. Len(str) |-> Lower(str[i])]
ToUppercase(str) == [i \in 1 .. Len(str) |-> Upper(str[i])]

\* str::trim
Trim(str) ==
    LET solid == {i \in 1 .. Len(str) : str[i] # " "}
    IN IF solid = {} THEN << >>
       ELSE SubSeq(str, CHOOSE i \in solid : \A j \in solid : i <= j,
                        CHOOSE i \in solid : \A j \in solid : i >= j)

\* str::contains
Contains(str, pat) ==
    \E i \in 1 .. (Len(str) - Len(pat) + 1) : SubSeq(str, i, i + Len(pat) - 1) = pat

StartsWith(str, pat) == Len(pat) <= Len(str) /\ SubSeq(str, 1, Len(pat)) = pat
EndsWith(str, pat) ==
    Len(pat) <= Len(str) /\ SubSeq(str, Len(str) - Len(pat) + 1, Len(str)) = pat

\* ------------------------------------------------------- ConversationState
\* a state whose last_activity is not taken from the clock
ConversationStateStale(user_id, t) == [user_id |-> user_id, last_activity |-> 0]

ConversationStateNew(user_id, t) == [user_id |-> user_id, last_activity |-> t]

IsExpired(e, t, timeout_minutes) == t - e.last_activity > timeout_minutes

\* ------------------------------------------------------ DashMap primitives
Get(m, c) == {e \in m : e.channel = c}

\* an insert that leaves the key's previous value in the table
InsertKeepOld(m, c, st) ==
    m \cup {[channel |-> c, user_id |-> st.user_id, last_activity |-> st.last_activity]}

\* an insert that overwrites the owner but keeps the old value's timestamp
InsertMerge(m, c, st) ==
    {e \in m : e.channel # c}
        \cup {[channel |-> c, user_id |-> st.user_id,
               last_activity |-> IF Get(m, c) = {} THEN st.last_activity
                                 ELSE (CHOOSE e \in Get(m, c) : TRUE).last_activity]}

Insert(m, c, st) ==
    {e \in m : e.channel # c}
        \cup {[channel |-> c, user_id |-> st.user_id, last_activity |-> st.last_activity]}

Remove(m, c) == {e \in m : e.channel # c}

UpdateActivity(m, c, t) ==
    {IF e.channel = c THEN [e EXCEPT !.last_activity = t] ELSE e : e \in m}

CanRead(s) == wguard[s] = NoTask
CanWrite(s) == wguard[s] = NoTask /\ rguard[s] = {}

HoldsGuard(t, s) == t \in rguard[s] \/ wguard[s] = t

\* a check that does not compare the owner
HasActiveAnyUser(m, c, u) == Get(m, c) # {}

HasActive(m, c, u) == \E e \in Get(m, c) : e.user_id = u

\* the keys of shard s the sweep's iterator finds expired
ExpiredIn(m, s, t) ==
    {e.channel : e \in {x \in m : shard_of[x.channel] = s /\ IsExpired(x, t, TimeoutMinutes)}}

\* ------------------------------------------------------------------- Init
NoCall == [op |-> "none", channel |-> "C", user |-> "U"]
NoMsg == [channel |-> "C", author |-> "U"]
NoRet == [op |-> "none", value |-> "none"]
NoIo == [gen |-> "none", deliver |-> "none"]
NoText == [ascii |-> 0, wide |-> 0, wide_first |-> FALSE]
NoInput == [content |-> << >>, author |-> "U", owner |-> "nobody",
            remote |-> [kind |-> "none", body |-> << >>], text |-> NoText]
NoOutput == [fn |-> "none", res |-> "none"]

\* ---------------------------------------------------------- AiConfiguration
Guilds == {"G"}        \* every channel of the model belongs to guild G
AiModes == {"Off", "Global", "Specific"}
AiGuildConfigs == [mode : AiModes, allowed_ids : SUBSET Channels]

\* a guild without an entry in AiConfiguration::guilds
NoGuildConfig == [mode |-> "absent", allowed_ids |-> {}]

\* impl Default for AiGuildConfig
DefaultGuildConfig == [mode |-> "Off", allowed_ids |-> {}]

\* AiConfiguration::get_guild_config
GetGuildConfig(gs, g) == IF gs[g] = NoGuildConfig THEN DefaultGuildConfig ELSE gs[g]

\* ------------------------------------------------------------ aiconfig, idle
Cmds == {"k1"}
StoreKey == "AiConfigStore"
\* Option<..>::None and Some: of the targets string, of the parsed Vec<String>
None == [some |-> FALSE, val |-> << >>]
Some(v) == [some |-> TRUE, val |-> v]
NoFile == [state |-> "missing", guilds |-> [g \in Guilds |-> NoGuildConfig]]
NoCmd == [pc |-> "idle", member |-> "none", guild |-> "none",
          mode_str |-> << >>, targets |-> None, mode_opt |-> "None", targets_opt |-> None,
          old |-> NoGuildConfig, followups |-> << >>, result |-> "none"]

Init ==
    /\ active_conversations = {}
    /\ now = 0
    /\ shard_of \in {f \in [Channels -> Shards] : f["C"] = 0}
    /\ rguard = [s \in Shards |-> {}]
    /\ wguard = [s \in Shards |-> NoTask]
    /\ pc = [t \in Procs |-> "idle"]
    /\ call = [t \in Procs |-> NoCall]
    /\ ret = [t \in Procs |-> NoRet]
    /\ to_remove = [t \in Procs |-> {}]
    /\ scan = [t \in Procs |-> 0]
    /\ msg = [t \in Procs |-> NoMsg]
    /\ has_active_convo = [t \in Procs |-> FALSE]
    /\ intent = [t \in Procs |-> "none"]
    /\ io = [t \in Procs |-> NoIo]
    /\ sent = [t \in Procs |-> {}]
    /\ received = 0
    /\ guilds = [g \in Guilds |-> NoGuildConfig]
    /\ config_file = NoFile /\ data = {StoreKey}
    /\ data_lock = {} /\ config_lock = NoTask /\ cmd = [k \in Cmds |-> NoCmd]
    /\ ai_in = NoInput
    /\ ai_out = NoOutput

\* ------------------------------------------------------------------ clock
Tick ==
    /\ now + ClockStep <= MaxTime
    /\ now' = now + ClockStep
    /\ UNCHANGED << active_conversations, shard_of, guilds, cfgVars, ai_in, ai_out, rguard, wguard, pc, call, ret,
                    to_remove, scan, msg, has_active_convo, intent, io, sent, received >>

\* ------------------------------------------------- pieces of the handlers
\* a failure path that leaves the conversation in the registry
KeepOnFailure(m, c) == m

\* bot.rs:340, eviction when the generated reply could not be delivered
SendFailEvict(m, c) == Remove(m, c)

\* bot.rs:358, eviction when generation failed
GenFailEvict(m, c) == Remove(m, c)

\* a respond decision that answers every message
ShouldRespondAlways(active, start) == TRUE

\* bot.rs:308-319, the respond decision
ShouldRespond(active, start) == IF active THEN TRUE ELSE start

\* where a finished sweep continues: the caller's next statement
SweepDonePc(t) ==
    CASE call[t].op = "message" -> "has_active"
      [] call[t].op = "bg" -> "bg_wait"
      [] OTHER -> "idle"

\* a respond branch that forgets to start the conversation
AfterDecideNoInsert(active, start) ==
    IF ShouldRespond(active, start) THEN "gen" ELSE "done"

\* bot.rs:321-332, after the respond decision
AfterDecide(active, start) ==
    IF ShouldRespond(active, start)
    THEN (IF ~active THEN "insert" ELSE "gen")
    ELSE "done"

RemovePcs == {"sweep_remove", "touch_remove", "end_remove", "stop_remove",
              "send_fail_remove", "gen_fail_remove", "m_stop_remove"}

\* the key a task at a remove() call passes
RemoveTargets(t) ==
    IF pc[t] = "sweep_remove" THEN to_remove[t]
    ELSE IF call[t].op = "message" THEN {msg[t].channel}
    ELSE {call[t].channel}

\* a task that waits in remove() for a shard lock it holds itself
SelfBlocked(t) ==
    /\ pc[t] \in RemovePcs
    /\ \E c \in RemoveTargets(t) : HoldsGuard(t, shard_of[c])

\* ------------------------------------------------------- registry methods
\* the registry method a task runs returns v
Returned(t, v) == [op |-> call[t].op, value |-> v]

\* a task invokes one of the registry methods of Handler
Call(t) ==
    /\ pc[t] = "idle"
    /\ \E op \in {"start", "touch", "end", "has_active", "sweep"} :
         \E c \in Channels, u \in Users :
            /\ (op = "sweep") => (c = "C" /\ u = "U")
            /\ call' = [call EXCEPT ![t] = [op |-> op, channel |-> c, user |-> u]]
            /\ pc' = [pc EXCEPT ![t] = op]
    /\ scan' = [scan EXCEPT ![t] = 0]
    /\ to_remove' = [to_remove EXCEPT ![t] = {}]
    /\ ret' = [ret EXCEPT ![t] = NoRet]
    /\ UNCHANGED << active_conversations, now, shard_of, guilds, cfgVars, ai_in, ai_out, rguard, wguard >>
    /\ UNCHANGED msgVars

\* Handler::start_conversation
StartConversation(t) ==
    /\ pc[t] = "start"
    /\ CanWrite(shard_of[call[t].channel])
    /\ active_conversations' =
          Insert(active_conversations, call[t].channel,
                 ConversationStateNew(call[t].user, now))
    /\ pc' = [pc EXCEPT ![t] = "idle"]
    /\ ret' = [ret EXCEPT ![t] = Returned(t, "unit")]
    /\ call' = [call EXCEPT ![t] = NoCall]
    /\ UNCHANGED << now, shard_of, guilds, cfgVars, ai_in, ai_out, rguard, wguard, to_remove, scan >>
    /\ UNCHANGED msgVars

\* Handler::update_conversation, up to its return or its call of remove()
UpdateConversation(t) ==
    /\ pc[t] = "touch"
    /\ LET c == call[t].channel
           u == call[t].user
           s == shard_of[c]
       IN /\ CanWrite(s)
          /\ IF Get(active_conversations, c) = {}
             THEN /\ ret' = [ret EXCEPT ![t] = Returned(t, "false")]
                  /\ pc' = [pc EXCEPT ![t] = "idle"]
                  /\ call' = [call EXCEPT ![t] = NoCall]
                  /\ UNCHANGED << active_conversations, wguard >>
             ELSE IF HasActive(active_conversations, c, u)
             THEN /\ active_conversations' = UpdateActivity(active_conversations, c, now)
                  /\ ret' = [ret EXCEPT ![t] = Returned(t, "true")]
                  /\ pc' = [pc EXCEPT ![t] = "idle"]
                  /\ call' = [call EXCEPT ![t] = NoCall]
                  /\ UNCHANGED wguard
             ELSE \* the RefMut `state` stays alive across the remove() that follows
                  /\ wguard' = [wguard EXCEPT ![s] = t]
                  /\ pc' = [pc EXCEPT ![t] = "touch_remove"]
                  /\ UNCHANGED << active_conversations, ret, call >>
    /\ UNCHANGED << now, shard_of, guilds, cfgVars, ai_in, ai_out, rguard, to_remove, scan >>
    /\ UNCHANGED msgVars

\* Handler::end_conversation, up to its return or its call of remove()
EndConversation(t) ==
    /\ pc[t] = "end"
    /\ LET c == call[t].channel
           u == call[t].user
           s == shard_of[c]
       IN /\ CanRead(s)
          /\ IF HasActive(active_conversations, c, u)
             THEN \* the Ref `state` stays alive across the remove() that follows
                  /\ rguard' = [rguard EXCEPT ![s] = @ \cup {t}]
                  /\ pc' = [pc EXCEPT ![t] = "end_remove"]
                  /\ UNCHANGED << ret, call >>
             ELSE /\ ret' = [ret EXCEPT ![t] = Returned(t, "false")]
                  /\ pc' = [pc EXCEPT ![t] = "idle"]
                  /\ call' = [call EXCEPT ![t] = NoCall]
                  /\ UNCHANGED rguard
    /\ UNCHANGED << active_conversations, now, shard_of, guilds, cfgVars, ai_in, ai_out, wguard, to_remove, scan >>
    /\ UNCHANGED msgVars

\* Handler::has_active_conversation
HasActiveConversation(t) ==
    /\ pc[t] = "has_active" /\ call[t].op = "has_active"
    /\ CanRead(shard_of[call[t].channel])
    /\ ret' = [ret EXCEPT ![t] =
                 Returned(t, IF HasActive(active_conversations, call[t].channel, call[t].user)
                             THEN "true" ELSE "false")]
    /\ pc' = [pc EXCEPT ![t] = "idle"]
    /\ call' = [call EXCEPT ![t] = NoCall]
    /\ UNCHANGED << active_conversations, now, shard_of, guilds, cfgVars, ai_in, ai_out, rguard, wguard, to_remove, scan >>
    /\ UNCHANGED msgVars

\* the collecting loop of a sweep, one shard of the iterator per step
SweepScan(t) ==
    /\ pc[t] = "sweep"
    /\ CanRead(scan[t])
    /\ LET found == to_remove[t] \cup ExpiredIn(active_conversations, scan[t], now)
           last == ~(scan[t] + 1 < NumShards)
           over == last /\ found = {} /\ call[t].op = "sweep"
       IN /\ to_remove' = [to_remove EXCEPT ![t] = found]
          /\ scan' = [scan EXCEPT ![t] = IF last THEN 0 ELSE @ + 1]
          /\ pc' = [pc EXCEPT ![t] =
                      IF ~last THEN "sweep"
                      ELSE IF found = {} THEN SweepDonePc(t) ELSE "sweep_remove"]
          /\ ret' = [ret EXCEPT ![t] = IF over THEN Returned(t, "unit") ELSE @]
          /\ call' = [call EXCEPT ![t] = IF over THEN NoCall ELSE @]
    /\ UNCHANGED << active_conversations, now, shard_of, guilds, cfgVars, ai_in, ai_out, rguard, wguard >>
    /\ UNCHANGED msgVars

\* one call of DashMap::remove, at any of its call sites, and what follows it
\* up to the next registry access
DashRemove(t) ==
    /\ pc[t] \in RemovePcs
    /\ \E c \in RemoveTargets(t) :
         LET emptied == pc[t] = "sweep_remove" /\ to_remove[t] \ {c} = {}
             over == call[t].op \in {"touch", "end"} \/ (emptied /\ call[t].op = "sweep")
         IN
         /\ CanWrite(shard_of[c])
         /\ active_conversations' =
               (CASE pc[t] = "send_fail_remove" -> SendFailEvict(active_conversations, c)
                  [] pc[t] = "gen_fail_remove" -> GenFailEvict(active_conversations, c)
                  [] OTHER -> Remove(active_conversations, c))
         /\ to_remove' = [to_remove EXCEPT ![t] =
                            IF pc[t] = "sweep_remove" THEN @ \ {c} ELSE @]
         /\ pc' = [pc EXCEPT ![t] =
                     CASE pc[t] = "sweep_remove" ->
                            (IF emptied THEN SweepDonePc(t) ELSE "sweep_remove")
                       [] pc[t] \in {"touch_remove", "end_remove"} -> "idle"
                       [] OTHER -> "done"]
         /\ ret' = [ret EXCEPT ![t] =
                      CASE pc[t] = "touch_remove" -> Returned(t, "false")
                        [] pc[t] = "end_remove" -> Returned(t, "true")
                        [] emptied /\ call[t].op = "sweep" -> Returned(t, "unit")
                        [] OTHER -> @]
         /\ call' = [call EXCEPT ![t] = IF over THEN NoCall ELSE @]
         /\ sent' = [sent EXCEPT ![t] =
                       IF pc[t] \in {"stop_remove", "m_stop_remove"}
                       THEN @ \cup {"closure"} ELSE @]
    \* the guard of the enclosing `if let` is dropped at the end of its block
    /\ rguard' = [s \in Shards |-> rguard[s] \ {t}]
    /\ wguard' = [s \in Shards |-> IF wguard[s] = t THEN NoTask ELSE wguard[s]]
    /\ UNCHANGED << now, shard_of, guilds, cfgVars, ai_in, ai_out, scan, msg, has_active_convo, intent, io, received >>

RegistryStep(t) ==
    \/ Call(t)
    \/ StartConversation(t)
    \/ UpdateConversation(t)
    \/ EndConversation(t)
    \/ HasActiveConversation(t)
    \/ SweepScan(t)
    \/ DashRemove(t)

Next == (\E t \in Tasks : RegistryStep(t)) \/ Tick

Spec == Init /\ [][Next]_vars

\* -------------------------------------------------------- Handler::message
Messages == [channel : Channels, author : Users]

\* bot.rs:260-267, the task that handles message m is spawned
Accept(t, m) ==
    /\ pc[t] \in {"idle", "done"}
    /\ received < MaxMsgs
    /\ received' = received + 1
    /\ msg' = [msg EXCEPT ![t] = m]
    /\ call' = [call EXCEPT ![t] = [op |-> "message", channel |-> m.channel,
                                   user |-> m.author]]
    /\ pc' = [pc EXCEPT ![t] = "sweep"]
    /\ scan' = [scan EXCEPT ![t] = 0]
    /\ to_remove' = [to_remove EXCEPT ![t] = {}]
    /\ has_active_convo' = [has_active_convo EXCEPT ![t] = FALSE]
    /\ intent' = [intent EXCEPT ![t] = "none"]
    /\ io' = [io EXCEPT ![t] = NoIo]
    /\ sent' = [sent EXCEPT ![t] = {}]
    /\ UNCHANGED << active_conversations, now, shard_of, guilds, cfgVars, ai_in, ai_out, rguard, wguard, ret >>

\* the gateway delivers a message of a user; its task is spawned
Receive(t) == \E m \in Messages : Accept(t, m)

\* accounts that are bots, and every message the gateway can deliver
Bots == {"B"}
GatewayMessages == [channel : Channels, author : Users \cup Bots]

\* a handler without the check of msg.author.bot
BotCheckMissing(author) == FALSE

\* bot.rs:202, `if msg.author.bot`
BotCheck(author) == author \in Bots

\* bot.rs:201-204, message() returns at once for a message of a bot
ReturnAtOnce(t, m) ==
    /\ pc[t] \in {"idle", "done"}
    /\ received < MaxMsgs
    /\ received' = received + 1
    /\ msg' = [msg EXCEPT ![t] = m]
    /\ pc' = [pc EXCEPT ![t] = "done"]
    /\ has_active_convo' = [has_active_convo EXCEPT ![t] = FALSE]
    /\ intent' = [intent EXCEPT ![t] = "none"]
    /\ io' = [io EXCEPT ![t] = NoIo]
    /\ sent' = [sent EXCEPT ![t] = {}]
    /\ UNCHANGED << active_conversations, now, shard_of, guilds, cfgVars, ai_in, ai_out, rguard,
                    wguard, call, ret, to_remove, scan >>

\* bot.rs:201-267, the gateway delivers a message of any account
Deliver(t) ==
    \E m \in GatewayMessages :
        IF BotCheck(m.author) THEN ReturnAtOnce(t, m) ELSE Accept(t, m)

\* bot.rs:283-288 and 308-321: the has-active check, then the one classifier
\* call made for the message: should_stop_conversation for the owner of the
\* conversation ("stop" or "continue"), should_respond_to_message for anyone
\* else ("start" or "ignore"); what it answers depends on the content
MsgHasActive(t) ==
    /\ pc[t] = "has_active" /\ call[t].op = "message"
    /\ CanRead(shard_of[msg[t].channel])
    /\ LET active == HasActive(active_conversations, msg[t].channel, msg[t].author)
       IN /\ has_active_convo' = [has_active_convo EXCEPT ![t] = active]
          /\ \E answer \in BOOLEAN :
               /\ intent' = [intent EXCEPT ![t] =
                               IF active
                               THEN (IF answer THEN "stop" ELSE "continue")
                               ELSE (IF answer THEN "start" ELSE "ignore")]
               /\ pc' = [pc EXCEPT ![t] =
                           IF active
                           THEN (IF answer THEN "stop_get" ELSE "touch_msg")
                           ELSE AfterDecide(FALSE, answer)]
    /\ UNCHANGED << active_conversations, now, shard_of, guilds, cfgVars, ai_in, ai_out, rguard, wguard, call, ret,
                    to_remove, scan, msg, io, sent, received >>

\* bot.rs:288-296, the stop branch up to its call of remove()
MsgStopGet(t) ==
    /\ pc[t] = "stop_get"
    /\ LET c == msg[t].channel
           s == shard_of[c]
       IN /\ CanRead(s)
          /\ IF HasActive(active_conversations, c, msg[t].author)
             THEN \* the Ref `state` stays alive across the remove() that follows
                  /\ rguard' = [rguard EXCEPT ![s] = @ \cup {t}]
                  /\ pc' = [pc EXCEPT ![t] = "stop_remove"]
             ELSE /\ pc' = [pc EXCEPT ![t] = AfterDecide(has_active_convo[t], FALSE)]
                  /\ UNCHANGED rguard
    /\ UNCHANGED << active_conversations, now, shard_of, guilds, cfgVars, ai_in, ai_out, wguard, call, ret,
                    to_remove, scan, msg, has_active_convo, intent, io, sent, received >>

\* an activity update that creates the entry it does not find
MsgTouchUpsert(t) ==
    /\ pc[t] = "touch_msg"
    /\ LET c == msg[t].channel
       IN /\ CanWrite(shard_of[c])
          /\ active_conversations' =
                IF HasActive(active_conversations, c, msg[t].author)
                THEN UpdateActivity(active_conversations, c, now)
                ELSE Insert(active_conversations, c,
                            ConversationStateNew(msg[t].author, now))
    /\ pc' = [pc EXCEPT ![t] = AfterDecide(has_active_convo[t], FALSE)]
    /\ UNCHANGED << now, shard_of, guilds, cfgVars, ai_in, ai_out, rguard, wguard, call, ret,
                    to_remove, scan, msg, has_active_convo, intent, io, sent, received >>

\* bot.rs:297-304, the activity update of a continued conversation
MsgTouch(t) ==
    /\ pc[t] = "touch_msg"
    /\ LET c == msg[t].channel
       IN /\ CanWrite(shard_of[c])
          /\ active_conversations' =
                IF HasActive(active_conversations, c, msg[t].author)
                THEN UpdateActivity(active_conversations, c, now)
                ELSE active_conversations
    /\ pc' = [pc EXCEPT ![t] = AfterDecide(has_active_convo[t], FALSE)]
    /\ UNCHANGED << now, shard_of, guilds, cfgVars, ai_in, ai_out, rguard, wguard, call, ret,
                    to_remove, scan, msg, has_active_convo, intent, io, sent, received >>

\* bot.rs:325-330, a new conversation is started
MsgInsert(t) ==
    /\ pc[t] = "insert"
    /\ CanWrite(shard_of[msg[t].channel])
    /\ active_conversations' =
          Insert(active_conversations, msg[t].channel,
                 ConversationStateNew(msg[t].author, now))
    /\ pc' = [pc EXCEPT ![t] = "gen"]
    /\ UNCHANGED << now, shard_of, guilds, cfgVars, ai_in, ai_out, rguard, wguard, call, ret,
                    to_remove, scan, msg, has_active_convo, intent, io, sent, received >>

\* bot.rs:334, generate_response returns Ok or Err
MsgGenerate(t) ==
    /\ pc[t] = "gen"
    /\ \E r \in {"ok", "err"} :
         /\ io' = [io EXCEPT ![t].gen = r]
         /\ pc' = [pc EXCEPT ![t] = IF r = "ok" THEN "reply" ELSE "fallback"]
    /\ UNCHANGED << active_conversations, now, shard_of, guilds, cfgVars, ai_in, ai_out, rguard, wguard, call, ret,
                    to_remove, scan, msg, has_active_convo, intent, sent, received >>

\* bot.rs:335-342, the generated reply is sent
MsgReply(t) ==
    /\ pc[t] = "reply"
    /\ \E d \in {"ok", "fail"} :
         /\ io' = [io EXCEPT ![t].deliver = d]
         /\ pc' = [pc EXCEPT ![t] = IF d = "ok" THEN "done" ELSE "send_fail_remove"]
    /\ sent' = [sent EXCEPT ![t] = @ \cup {"reply"}]
    /\ UNCHANGED << active_conversations, now, shard_of, guilds, cfgVars, ai_in, ai_out, rguard, wguard, call, ret,
                    to_remove, scan, msg, has_active_convo, intent, received >>

\* bot.rs:343-355, the fallback message is sent
MsgFallback(t) ==
    /\ pc[t] = "fallback"
    /\ \E d \in {"ok", "fail"} : io' = [io EXCEPT ![t].deliver = d]
    /\ sent' = [sent EXCEPT ![t] = @ \cup {"fallback"}]
    /\ pc' = [pc EXCEPT ![t] = "gen_fail_remove"]
    /\ UNCHANGED << active_conversations, now, shard_of, guilds, cfgVars, ai_in, ai_out, rguard, wguard, call, ret,
                    to_remove, scan, msg, has_active_convo, intent, received >>

MessageStep(t) ==
    \/ Receive(t)
    \/ SweepScan(t)
    \/ DashRemove(t)
    \/ MsgHasActive(t)
    \/ MsgStopGet(t)
    \/ MsgTouch(t)
    \/ MsgInsert(t)
    \/ MsgGenerate(t)
    \/ MsgReply(t)
    \/ MsgFallback(t)

NextMsg == (\E t \in Tasks : MessageStep(t)) \/ Tick

SpecMsg == Init /\ [][NextMsg]_vars

\* ---------------------------------------------------------- Handler::ready
\* bot.rs:127-128, the ready event spawns the background sweep task
Ready ==
    /\ pc[Bg] = "idle"
    /\ pc' = [pc EXCEPT ![Bg] = "bg_wait"]
    /\ call' = [call EXCEPT ![Bg] = [op |-> "bg", channel |-> "C", user |-> "U"]]
    /\ UNCHANGED << active_conversations, now, shard_of, guilds, cfgVars, ai_in, ai_out, rguard, wguard, ret,
                    to_remove, scan >>
    /\ UNCHANGED msgVars

\* bot.rs:129-132, the interval of the background task fires
BgWake ==
    /\ pc[Bg] = "bg_wait"
    /\ pc' = [pc EXCEPT ![Bg] = "sweep"]
    /\ scan' = [scan EXCEPT ![Bg] = 0]
    /\ to_remove' = [to_remove EXCEPT ![Bg] = {}]
    /\ UNCHANGED << active_conversations, now, shard_of, guilds, cfgVars, ai_in, ai_out, rguard, wguard, call, ret >>
    /\ UNCHANGED msgVars

\* bot.rs:128-145, the steps of the background task
BgStep == Ready \/ BgWake \/ SweepScan(Bg) \/ DashRemove(Bg)

\* the steps of a spawned message task, which the runtime keeps scheduling
HandlerRun(t) ==
    \/ SweepScan(t)
    \/ DashRemove(t)
    \/ MsgHasActive(t)
    \/ MsgStopGet(t)
    \/ MsgTouch(t)
    \/ MsgInsert(t)
    \/ MsgGenerate(t)
    \/ MsgReply(t)
    \/ MsgFallback(t)

NextBg == BgStep \/ Receive("t1") \/ HandlerRun("t1") \/ Tick

SpecBg ==
    /\ Init
    /\ [][NextBg]_vars
    /\ WF_vars(BgStep)
    /\ WF_vars(HandlerRun("t1"))

\* ------------------------------------------- Handler::message of main.rs
\* The handler revision of main.rs keeps DashMap<ChannelId, UserId>: an entry
\* is the channel's active user (last_activity stays 0), there is no sweep,
\* and the classifiers are the remote calls of ai/mod.rs.

\* main.rs:129-139, a message of a user arrives
MainReceive(t) ==
    /\ pc[t] \in {"idle", "done"}
    /\ received < MaxMsgs
    /\ received' = received + 1
    /\ \E m \in Messages :
         /\ msg' = [msg EXCEPT ![t] = m]
         /\ call' = [call EXCEPT ![t] = [op |-> "main", channel |-> m.channel,
                                        user |-> m.author]]
    /\ pc' = [pc EXCEPT ![t] = "m_stop_get"]
    /\ has_active_convo' = [has_active_convo EXCEPT ![t] = FALSE]
    /\ intent' = [intent EXCEPT ![t] = "none"]
    /\ io' = [io EXCEPT ![t] = NoIo]
    /\ sent' = [sent EXCEPT ![t] = {}]
    /\ UNCHANGED << active_conversations, rguard >>
    /\ UNCHANGED << now, shard_of, guilds, cfgVars, ai_in, ai_out, wguard, ret, to_remove, scan >>

\* main.rs:142-143, `if let Some(active_user) = active_conversations.get(..)`:
\* for the active user the Ref stays alive over the classification that follows
MainStopGet(t) ==
    /\ pc[t] = "m_stop_get"
    /\ LET c == msg[t].channel
           s == shard_of[c]
       IN /\ CanRead(s)
          /\ IF HasActive(active_conversations, c, msg[t].author)
             THEN /\ rguard' = [rguard EXCEPT ![s] = @ \cup {t}]
                  /\ pc' = [pc EXCEPT ![t] = "m_classify"]
             ELSE /\ pc' = [pc EXCEPT ![t] = "m_respond"]
                  /\ UNCHANGED rguard
    /\ UNCHANGED << active_conversations, call, msg, has_active_convo, intent, io, sent,
                    received >>
    /\ UNCHANGED << now, shard_of, guilds, cfgVars, ai_in, ai_out, wguard, ret, to_remove, scan >>

\* main.rs:144-159, should_stop_conversation(..).await returns Ok(true),
\* Ok(false) or Err; on Ok(true) the handler goes on to remove(), otherwise
\* the block ends and the Ref is dropped
MainClassify(t) ==
    /\ pc[t] = "m_classify"
    /\ \E r \in {"stop", "continue", "classify_err"} :
         /\ intent' = [intent EXCEPT ![t] = r]
         /\ IF r = "stop"
            THEN /\ pc' = [pc EXCEPT ![t] = "m_stop_remove"]
                 /\ UNCHANGED rguard
            ELSE /\ pc' = [pc EXCEPT ![t] = "m_respond"]
                 /\ rguard' = [s \in Shards |-> rguard[s] \ {t}]
    /\ UNCHANGED << active_conversations, call, msg, has_active_convo, io, sent, received >>
    /\ UNCHANGED << now, shard_of, guilds, cfgVars, ai_in, ai_out, wguard, ret, to_remove, scan >>

\* main.rs:164-172, should_respond_to_message: the registry lookup of
\* ai/mod.rs:205-210, then the remote (or fallback) answer
MainRespond(t) ==
    /\ pc[t] = "m_respond"
    /\ CanRead(shard_of[msg[t].channel])
    /\ LET active == HasActive(active_conversations, msg[t].channel, msg[t].author)
       IN \E answer \in BOOLEAN :
            /\ active => answer
            /\ intent' = [intent EXCEPT ![t] =
                            IF active THEN @ ELSE IF answer THEN "start" ELSE "ignore"]
            /\ pc' = [pc EXCEPT ![t] = IF answer THEN "m_track" ELSE "done"]
    /\ UNCHANGED << active_conversations, rguard, call, msg, has_active_convo, io, sent,
                    received >>
    /\ UNCHANGED << now, shard_of, guilds, cfgVars, ai_in, ai_out, wguard, ret, to_remove, scan >>

\* main.rs:176-179, is_existing_conversation
MainTrack(t) ==
    /\ pc[t] = "m_track"
    /\ CanRead(shard_of[msg[t].channel])
    /\ LET existing == HasActive(active_conversations, msg[t].channel, msg[t].author)
       IN /\ has_active_convo' = [has_active_convo EXCEPT ![t] = existing]
          /\ pc' = [pc EXCEPT ![t] = IF existing THEN "m_gen" ELSE "m_insert"]
    /\ UNCHANGED << active_conversations, rguard, call, msg, intent, io, sent, received >>
    /\ UNCHANGED << now, shard_of, guilds, cfgVars, ai_in, ai_out, wguard, ret, to_remove, scan >>

\* main.rs:180, active_conversations.insert(channel, author)
MainInsert(t) ==
    /\ pc[t] = "m_insert"
    /\ CanWrite(shard_of[msg[t].channel])
    /\ active_conversations' =
          Insert(active_conversations, msg[t].channel,
                 [user_id |-> msg[t].author, last_activity |-> 0])
    /\ pc' = [pc EXCEPT ![t] = "m_gen"]
    /\ UNCHANGED << rguard, call, msg, has_active_convo, intent, io, sent, received >>
    /\ UNCHANGED << now, shard_of, guilds, cfgVars, ai_in, ai_out, wguard, ret, to_remove, scan >>

\* main.rs:187, generate_response returns Ok or Err
MainGenerate(t) ==
    /\ pc[t] = "m_gen"
    /\ \E r \in {"ok", "err"} :
         /\ io' = [io EXCEPT ![t].gen = r]
         /\ pc' = [pc EXCEPT ![t] = IF r = "ok" THEN "m_reply" ELSE "m_fallback"]
    /\ UNCHANGED << active_conversations, rguard, call, msg, has_active_convo, intent,
                    sent, received >>
    /\ UNCHANGED << now, shard_of, guilds, cfgVars, ai_in, ai_out, wguard, ret, to_remove, scan >>

\* main.rs:188-197 and 198-211, the reply or the fallback message is sent;
\* the registry is left as it is whatever the outcome
MainSend(t) ==
    /\ pc[t] \in {"m_reply", "m_fallback"}
    /\ \E d \in {"ok", "fail"} : io' = [io EXCEPT ![t].deliver = d]
    /\ sent' = [sent EXCEPT ![t] =
                  @ \cup {IF pc[t] = "m_reply" THEN "reply" ELSE "fallback"}]
    /\ pc' = [pc EXCEPT ![t] = "done"]
    /\ UNCHANGED << active_conversations, rguard, call, msg, has_active_convo, intent,
                    received >>
    /\ UNCHANGED << now, shard_of, guilds, cfgVars, ai_in, ai_out, wguard, ret, to_remove, scan >>

\* the remove() of main.rs:147 is DashRemove at "m_stop_remove"; the Ref taken
\* at main.rs:142 is alive there, so the call cannot get the shard's lock
MainStep(t) ==
    \/ MainReceive(t)
    \/ MainStopGet(t)
    \/ MainClassify(t)
    \/ MainRespond(t)
    \/ MainTrack(t)
    \/ MainInsert(t)
    \/ MainGenerate(t)
    \/ MainSend(t)

NextMain == \E t \in Tasks : MainStep(t)

SpecMain == Init /\ [][NextMain]_vars

\* ------------------------------------ Handler::message with bots in the guild
NextBot == Deliver("t1") \/ HandlerRun("t1") \/ Tick

SpecBot == Init /\ [][NextBot]_vars

\* --------------------------------------- Handler::message in a configured guild
\* the handler of bot.rs in a guild whose AiGuildConfig was set beforehand
InitGate ==
    /\ active_conversations = {}
    /\ now = 0
    /\ shard_of \in {f \in [Channels -> Shards] : f["C"] = 0}
    /\ rguard = [s \in Shards |-> {}]
    /\ wguard = [s \in Shards |-> NoTask]
    /\ pc = [t \in Procs |-> "idle"]
    /\ call = [t \in Procs |-> NoCall]
    /\ ret = [t \in Procs |-> NoRet]
    /\ to_remove = [t \in Procs |-> {}]
    /\ scan = [t \in Procs |-> 0]
    /\ msg = [t \in Procs |-> NoMsg]
    /\ has_active_convo = [t \in Procs |-> FALSE]
    /\ intent = [t \in Procs |-> "none"]
    /\ io = [t \in Procs |-> NoIo]
    /\ sent = [t \in Procs |-> {}]
    /\ received = 0
    /\ guilds \in [Guilds -> AiGuildConfigs \cup {NoGuildConfig}]
    /\ config_file = NoFile /\ data = {StoreKey}
    /\ data_lock = {} /\ config_lock = NoTask /\ cmd = [k \in Cmds |-> NoCmd]
    /\ ai_in = NoInput
    /\ ai_out = NoOutput

NextGate == Receive("t1") \/ HandlerRun("t1") \/ Tick

SpecGate == InitGate /\ [][NextGate]_vars

\* ============================================================= GeminiClient
\* ------------------------------------------------------------------ bounds
MaxWide == 3           \* multi-byte characters in a generated text
WideBytes == 2         \* UTF-8 length of each of them (2 as for U+00E9)

\* ------------------------------------------------------- program constants
DiscordLimit == 2000   \* text.len() > 2000
TruncateAt == 1997     \* &text[..1997]
MarkerLen == Len(<< ".", ".", "." >>)   \* format!("{}...", ..)

\* config.bot_name, as set through BOT_NAME
BotName == << "A", "x", "i", "s" >>

\* the message contents that are tried
Contents == {
    << "h", "e", "y", " ", "A", "x", "i", "s", " ", "c", "a", "n", " ", "y", "o", "u", " ", "h", "e", "l", "p", " ", "m", "e", " ", "w", "i", "t", "h", " ", "a", " ", "s", "c", "r", "i", "p", "t", "?" >>,
    << "w", "h", "a", "t", "'", "s", " ", "f", "o", "r", " ", "l", "u", "n", "c", "h" >>,
    << "i", " ", "l", "o", "v", "e", " ", "r", "o", "b", "l", "o", "x" >>,
    << "h", "e", "l", "p", " ", "m", "e" >>,
    << "l", "u", "a", "u", "?" >>,
    << "i", "s", " ", "l", "u", "a", "u", " ", "t", "y", "p", "e", "d", "?" >>,
    << "b", "y", "e" >>,
    << "o", "k", " ", "t", "h", "a", "n", "k", "s" >>,
    << "h", "o", "w", " ", "d", "o", " ", "I", " ", "u", "s", "e", " ", "t", "h", "a", "n", "k", "s", " ", "D", "a", "t", "a", "S", "t", "o", "r", "e", "?" >>,
    << " ", " ", "H", "e", "l", "l", "o", " ", "A", "X", "I", "S", " " >> }

\* how the HTTP call to the generative-language API can end: no connection,
\* timeout, non-success status, a body that is not JSON, JSON without a
\* candidate text, or a candidate text (body)
RemoteOutcomes ==
    { [kind |-> k, body |-> << >>] : k \in {"send_err", "timeout", "bad_json", "no_text"} }
    \cup { [kind |-> "status_err", body |-> b] : b \in { << >>, << "u", "p", "s", "t", "r", "e", "a", "m", " ", "t", "i", "m", "e", "o", "u", "t" >> } }
    \cup { [kind |-> "text", body |-> b] : b \in { << "Y", "E", "S" >>, << "N", "O" >>, << " ", "y", "e", "s", " " >> } }

\* generated texts: ascii one-byte characters and wide multi-byte characters,
\* the wide ones in front of or behind the ascii ones
AsciiLens == {1996, 1997, 2000, 2001}
Texts ==
    { tx \in [ascii : AsciiLens, wide : 0 .. MaxWide, wide_first : BOOLEAN] :
        tx.wide = 0 => ~tx.wide_first }

Inputs == [content : Contents, author : {"U"}, owner : {"nobody", "U", "V"},
           remote : RemoteOutcomes, text : Texts]

\* String::len (bytes) and the number of characters
ByteLen(tx) == tx.ascii + WideBytes * tx.wide
CharLen(tx) == tx.ascii + tx.wide

\* str::is_char_boundary
IsCharBoundary(tx, i) ==
    IF tx.wide_first
    THEN (i <= WideBytes * tx.wide) => (i % WideBytes = 0)
    ELSE (i > tx.ascii) => ((i - tx.ascii) % WideBytes = 0)

\* &text[..i] for a character boundary i
SliceTo(tx, i) ==
    IF tx.wide_first
    THEN (IF i <= WideBytes * tx.wide
          THEN [ascii |-> 0, wide |-> i \div WideBytes, wide_first |-> i > 0]
          ELSE [ascii |-> i - WideBytes * tx.wide, wide |-> tx.wide, wide_first |-> TRUE])
    ELSE (IF i <= tx.ascii
          THEN [ascii |-> i, wide |-> 0, wide_first |-> FALSE]
          ELSE [ascii |-> tx.ascii, wide |-> (i - tx.ascii) \div WideBytes,
                wide_first |-> FALSE])

\* ai/mod.rs:284-306
FallbackShouldRespond(content, bot_name) ==
    LET content_lower == Trim(ToLowercase(content))
        bot_name_lower == ToLowercase(bot_name)
        triggers == { << "h", "e", "y", " " >> \o bot_name_lower,
                      << "h", "i", " " >> \o bot_name_lower,
                      << "h", "e", "l", "l", "o", " " >> \o bot_name_lower,
                      bot_name_lower \o << " ", "h", "e", "l", "p" >>,
                      << "h", "e", "l", "p", " " >> \o bot_name_lower,
                      bot_name_lower,
                      << "r", "o", "b", "l", "o", "x" >>,
                      << "l", "u", "a", "u" >>,
                      << "s", "c", "r", "i", "p", "t" >>,
                      << "s", "c", "r", "i", "p", "t", "i", "n", "g" >>,
                      << "h", "e", "l", "p", " ", "m", "e" >>,
                      << "c", "a", "n", " ", "y", "o", "u" >> }
    IN \E trigger \in triggers : Contains(content_lower, trigger)

\* ai/mod.rs:182-190 and 259-267: the answer read from the response JSON
ReadAnswer(remote) ==
    LET response_text ==
            ToUppercase(Trim(IF remote.kind = "no_text" THEN << "N", "O" >> ELSE remote.body))
    IN response_text = << "Y", "E", "S" >>

\* ai/mod.rs:131-194
ShouldStopConversation(remote) ==
    CASE remote.kind \in {"send_err", "timeout"} -> [kind |-> "err", value |-> FALSE]
      [] remote.kind = "status_err" -> [kind |-> "ok", value |-> FALSE]
      [] remote.kind = "bad_json" -> [kind |-> "err", value |-> FALSE]
      [] OTHER -> [kind |-> "ok", value |-> ReadAnswer(remote)]

\* a should_respond_to_message without the active-conversation shortcut
ShouldRespondToMessageAlwaysAsks(content, bot_name, author_id, owner, remote) ==
    [kind |-> "ok", remote_called |-> TRUE,
     value |-> IF remote.kind \in {"text", "no_text"}
               THEN ReadAnswer(remote)
               ELSE FallbackShouldRespond(content, bot_name)]

\* ai/mod.rs:196-282; owner is what active_conversations holds for the channel
ShouldRespondToMessage(content, bot_name, author_id, owner, remote) ==
    IF owner = author_id
    THEN [kind |-> "ok", remote_called |-> FALSE, value |-> TRUE]
    ELSE [kind |-> "ok", remote_called |-> TRUE,
          value |-> IF remote.kind \in {"text", "no_text"}
                    THEN ReadAnswer(remote)
                    ELSE FallbackShouldRespond(content, bot_name)]

\* ai/mod.rs:94-128; err is what to_string() gives for the returned error
GenerateResponse(remote, tx) ==
    CASE remote.kind \in {"send_err", "timeout"} ->
            [kind |-> "err", err |-> << "F", "a", "i", "l", "e", "d", " ", "t", "o", " ", "s", "e", "n", "d", " ", "r", "e", "q", "u", "e", "s", "t", " ", "t", "o", " ", "G", "e", "m", "i", "n", "i", " ", "A", "P", "I" >>,
             text |-> NoText, marker |-> FALSE]
      [] remote.kind = "status_err" ->
            [kind |-> "err",
             err |-> << "G", "e", "m", "i", "n", "i", " ", "A", "P", "I", " ", "e", "r", "r", "o", "r", " ", "5", "0", "0", " ", "I", "n", "t", "e", "r", "n", "a", "l", " ", "S", "e", "r", "v", "e", "r", " ", "E", "r", "r", "o", "r", ":", " " >> \o remote.body,
             text |-> NoText, marker |-> FALSE]
      [] remote.kind = "bad_json" ->
            [kind |-> "err", err |-> << "F", "a", "i", "l", "e", "d", " ", "t", "o", " ", "p", "a", "r", "s", "e", " ", "G", "e", "m", "i", "n", "i", " ", "A", "P", "I", " ", "r", "e", "s", "p", "o", "n", "s", "e" >>,
             text |-> NoText, marker |-> FALSE]
      [] remote.kind = "no_text" ->
            [kind |-> "err", err |-> << "I", "n", "v", "a", "l", "i", "d", " ", "r", "e", "s", "p", "o", "n", "s", "e", " ", "s", "t", "r", "u", "c", "t", "u", "r", "e", " ", "f", "r", "o", "m", " ", "G", "e", "m", "i", "n", "i", " ", "A", "P", "I" >>,
             text |-> NoText, marker |-> FALSE]
      [] OTHER ->
            IF ByteLen(tx) > DiscordLimit
            THEN (IF IsCharBoundary(tx, TruncateAt)
                  THEN [kind |-> "ok", err |-> << >>, text |-> SliceTo(tx, TruncateAt),
                        marker |-> TRUE]
                  ELSE \* slicing inside a character panics
                       [kind |-> "panic", err |-> << >>, text |-> NoText, marker |-> FALSE])
            ELSE [kind |-> "ok", err |-> << >>, text |-> tx, marker |-> FALSE]

\* bot.rs:345-351
FallbackMessage(e) ==
    IF Contains(e, << "t", "i", "m", "e", "o", "u", "t" >>)
    THEN "Request timed out. Please try again."
    ELSE IF Contains(e, << "A", "P", "I", " ", "e", "r", "r", "o", "r" >>)
    THEN "I'm experiencing technical difficulties. Please try again later."
    ELSE "I'm having trouble processing your request right now."

\* ------------------------------------------------ applying the functions
regAll == << active_conversations, now, shard_of, guilds, cfgVars, rguard, wguard, pc, call, ret,
             to_remove, scan, msg, has_active_convo, intent, io, sent, received >>

InitAi ==
    /\ active_conversations = {}
    /\ now = 0
    /\ shard_of = [c \in Channels |-> 0]
    /\ rguard = [s \in Shards |-> {}]
    /\ wguard = [s \in Shards |-> NoTask]
    /\ pc = [t \in Procs |-> "idle"]
    /\ call = [t \in Procs |-> NoCall]
    /\ ret = [t \in Procs |-> NoRet]
    /\ to_remove = [t \in Procs |-> {}]
    /\ scan = [t \in Procs |-> 0]
    /\ msg = [t \in Procs |-> NoMsg]
    /\ has_active_convo = [t \in Procs |-> FALSE]
    /\ intent = [t \in Procs |-> "none"]
    /\ io = [t \in Procs |-> NoIo]
    /\ sent = [t \in Procs |-> {}]
    /\ received = 0
    /\ guilds = [g \in Guilds |-> NoGuildConfig]
    /\ config_file = NoFile /\ data = {StoreKey}
    /\ data_lock = {} /\ config_lock = NoTask /\ cmd = [k \in Cmds |-> NoCmd]
    /\ ai_in \in Inputs
    /\ ai_out = NoOutput

AiFallbackShouldRespond ==
    /\ ai_out = NoOutput
    /\ ai_out' = [fn |-> "fallback_should_respond",
                  res |-> FallbackShouldRespond(ai_in.content, BotName)]
    /\ UNCHANGED << regAll, ai_in >>

AiShouldStopConversation ==
    /\ ai_out = NoOutput
    /\ ai_out' = [fn |-> "should_stop_conversation",
                  res |-> ShouldStopConversation(ai_in.remote)]
    /\ UNCHANGED << regAll, ai_in >>

AiShouldRespondToMessage ==
    /\ ai_out = NoOutput
    /\ ai_out' = [fn |-> "should_respond_to_message",
                  res |-> ShouldRespondToMessage(ai_in.content, BotName, ai_in.author,
                                                 ai_in.owner, ai_in.remote)]
    /\ UNCHANGED << regAll, ai_in >>

\* bot.rs:283-332 for a message that is not a stop: has_active_convo, the
\* respond decision, and where the task goes from there
AiRespondDecision ==
    /\ ai_out = NoOutput
    /\ \E start \in BOOLEAN :
         ai_out' = [fn |-> "respond_decision",
                    res |-> [active |-> ai_in.owner = ai_in.author, start |-> start,
                             next |-> AfterDecide(ai_in.owner = ai_in.author, start)]]
    /\ UNCHANGED << regAll, ai_in >>

AiGenerateResponse ==
    /\ ai_out = NoOutput
    /\ ai_out' = [fn |-> "generate_response",
                  res |-> GenerateResponse(ai_in.remote, ai_in.text)]
    /\ UNCHANGED << regAll, ai_in >>

\* bot.rs:343-355, the handler picks the fallback for a failed generation
AiFallbackMessage ==
    /\ ai_out.fn = "generate_response"
    /\ ai_out.res.kind = "err"
    /\ ai_out' = [fn |-> "fallback_message",
                  res |-> [message |-> FallbackMessage(ai_out.res.err)]]
    /\ UNCHANGED << regAll, ai_in >>

NextAi ==
    \/ AiFallbackShouldRespond
    \/ AiShouldStopConversation
    \/ AiShouldRespondToMessage
    \/ AiRespondDecision
    \/ AiGenerateResponse
    \/ AiFallbackMessage

SpecAi == InitAi /\ [][NextAi]_vars

\* ================================================================= aiconfig
\* ------------------------------------------------------- program constants
\* a string of up to 19 digits is below 2^64; longer ones are not drawn
U64Digits == 19

\* ------------------------------------------------------------------ inputs
\* command.member: absent, without permissions, without and with Administrator
Members == {"none", "no_permissions", "member", "admin"}
ModeStrings == {<< "o", "f", "f" >>, << "g", "l", "o", "b", "a", "l" >>, << "s", "p", "e", "c", "i", "f", "i", "c" >>, << "a", "u", "t", "o" >>}
TargetStrings ==
    {None, Some(<< "a", "b", "c" >>), Some(<< "<", "#", "1", ">" >>), Some(<< "2", " ", "a", "b", "c" >>), Some(<< "<", "#", ">" >>), Some(<< " ", "+", "5", " ", " ", "<", "#", "x", ">", " " >>), Some(<< "<", "#", "1" >>)}

\* ------------------------------------------------------- option parsing
\* a permission test that lets every member through
IsAnyMember(member) == member # "none"

IsAdministrator(member) == member = "admin"

ParseMode(mode_str) ==
    CASE mode_str = << "o", "f", "f" >> -> "Off"
      [] mode_str = << "g", "l", "o", "b", "a", "l" >> -> "Global"
      [] mode_str = << "s", "p", "e", "c", "i", "f", "i", "c" >> -> "Specific"
      [] OTHER -> "None"

IsWhitespace(ch) == ch \in {" ", "\t", "\n"}
IsDigit(ch) == ch \in {"0", "1", "2", "3", "4", "5", "6", "7", "8", "9"}

RECURSIVE SplitWhitespace(_)
SplitWhitespace(str) ==
    IF str = << >> THEN << >>
    ELSE IF IsWhitespace(Head(str)) THEN SplitWhitespace(Tail(str))
    ELSE LET stops == {i \in 1 .. Len(str) : IsWhitespace(str[i])}
             end == IF stops = {} THEN Len(str) + 1
                    ELSE CHOOSE i \in stops : \A j \in stops : i <= j
         IN << SubSeq(str, 1, end - 1) >> \o SplitWhitespace(SubSeq(str, end, Len(str)))

\* str::parse::<u64>().is_ok(): an optional plus sign, then digits
IsU64(s) ==
    LET ds == IF s # << >> /\ Head(s) = "+" THEN Tail(s) ELSE s
    IN /\ Len(ds) \in 1 .. U64Digits
       /\ \A i \in 1 .. Len(ds) : IsDigit(ds[i])

\* the filter_map closure over the tokens
RECURSIVE ParseTargets(_)
ParseTargets(tokens) ==
    IF tokens = << >> THEN << >>
    ELSE LET s == Head(tokens)
             one == IF StartsWith(s, << "<", "#" >>) /\ EndsWith(s, << ">" >>)
                        THEN << SubSeq(s, 3, Len(s) - 1) >>
                    ELSE IF IsU64(s) THEN << s >>
                    ELSE << >>
         IN one \o ParseTargets(Tail(tokens))

\* targets_opt after the loop over the options
TargetsOpt(targets) ==
    IF ~targets.some THEN None
    ELSE LET parsed_targets == ParseTargets(SplitWhitespace(targets.val))
         IN IF parsed_targets # << >> THEN Some(parsed_targets) ELSE None

Ids(vec) == {vec[i] : i \in 1 .. Len(vec)}

\* an update that stores the targets whatever the mode is
AllowedIdsKept(mode, targets_opt) == Ids(targets_opt.val)

\* allowed_ids of the AiGuildConfig that is stored
AllowedIdsFor(mode, targets_opt) ==
    IF mode = "Specific" THEN Ids(targets_opt.val) ELSE {}

\* a lookup that takes the store for granted
StoreAssumed(d) == TRUE

\* data_read.get::<AiConfigStore>() is Some
StoreLookup(d) == StoreKey \in d

\* AiConfiguration::set_guild_config
SetGuildConfig(gs, g, config) == [gs EXCEPT ![g] = config]

\* ------------------------------------------------------------ run, by step
botVars == << active_conversations, now, shard_of, rguard, wguard, pc, call, ret,
              to_remove, scan, msg, has_active_convo, intent, io, sent, received,
              ai_in, ai_out >>

SaveOutcomes == {"ok", "open_err", "write_err", "flush_lost"}

\* create_followup(..).await? followed by return Ok(()): the locals are dropped
Finish(c, text, delivered) ==
    [NoCmd EXCEPT !.pc = "done",
                  !.followups = Append(c.followups,
                                       [content |-> text, delivered |-> delivered]),
                  !.result = IF delivered THEN "Ok" ELSE "Err"]

\* the interaction arrives and is deferred
CmdInvoke(k) ==
    /\ cmd[k].pc \in {"idle", "done"}
    /\ \E member \in Members, guild \in Guilds \cup {"none"},
          mode_str \in ModeStrings, targets \in TargetStrings, deferred \in BOOLEAN :
          cmd' = [cmd EXCEPT ![k] =
                     IF deferred
                         THEN [NoCmd EXCEPT !.pc = "permissions", !.member = member,
                                            !.guild = guild, !.mode_str = mode_str,
                                            !.targets = targets]
                         ELSE [NoCmd EXCEPT !.pc = "done", !.result = "Err"]]
    /\ UNCHANGED << botVars, guilds, config_file, data, data_lock, config_lock >>

CmdPermissions(k) ==
    /\ cmd[k].pc = "permissions"
    /\ IF ~IsAdministrator(cmd[k].member)
          THEN \E delivered \in BOOLEAN :
                  cmd' = [cmd EXCEPT ![k] = Finish(@, "not_admin", delivered)]
          ELSE cmd' = [cmd EXCEPT ![k].pc = "guild_id"]
    /\ UNCHANGED << botVars, guilds, config_file, data, data_lock, config_lock >>

CmdGuildId(k) ==
    /\ cmd[k].pc = "guild_id"
    /\ IF cmd[k].guild = "none"
          THEN \E delivered \in BOOLEAN :
                  cmd' = [cmd EXCEPT ![k] = Finish(@, "guild_only", delivered)]
          ELSE cmd' = [cmd EXCEPT ![k].pc = "options"]
    /\ UNCHANGED << botVars, guilds, config_file, data, data_lock, config_lock >>

\* the loop over the options and the two checks on its results
CmdOptions(k) ==
    /\ cmd[k].pc = "options"
    /\ LET mode_opt == ParseMode(cmd[k].mode_str)
           targets_opt == TargetsOpt(cmd[k].targets)
           parsed == [cmd[k] EXCEPT !.mode_opt = mode_opt, !.targets_opt = targets_opt]
       IN IF mode_opt = "None"
             THEN \E delivered \in BOOLEAN :
                     cmd' = [cmd EXCEPT ![k] = Finish(parsed, "invalid_mode", delivered)]
          ELSE IF mode_opt = "Specific" /\ ~targets_opt.some
             THEN \E delivered \in BOOLEAN :
                     cmd' = [cmd EXCEPT ![k] = Finish(parsed, "need_targets", delivered)]
          ELSE cmd' = [cmd EXCEPT ![k] = [parsed EXCEPT !.pc = "data_read"]]
    /\ UNCHANGED << botVars, guilds, config_file, data, data_lock, config_lock >>

\* ctx.data.read().await
CmdDataRead(k) ==
    /\ cmd[k].pc = "data_read"
    /\ data_lock' = data_lock \cup {k}
    /\ cmd' = [cmd EXCEPT ![k].pc = "store"]
    /\ UNCHANGED << botVars, guilds, config_file, data, config_lock >>

\* the store is cloned and the guard dropped, or the command ends with the
\* follow-up sent under the guard
CmdStore(k) ==
    /\ cmd[k].pc = "store"
    /\ IF StoreLookup(data)
          THEN cmd' = [cmd EXCEPT ![k].pc = "write"]
          ELSE \E delivered \in BOOLEAN :
                  cmd' = [cmd EXCEPT ![k] = Finish(@, "not_available", delivered)]
    /\ data_lock' = data_lock \ {k}
    /\ UNCHANGED << botVars, guilds, config_file, data, config_lock >>

\* config_store_lock.write().await and set_guild_config
CmdUpdate(k) ==
    /\ cmd[k].pc = "write"
    /\ config_lock = NoTask
    /\ config_lock' = k
    /\ guilds' = SetGuildConfig(guilds, cmd[k].guild,
                     [mode |-> cmd[k].mode_opt,
                      allowed_ids |-> AllowedIdsFor(cmd[k].mode_opt, cmd[k].targets_opt)])
    /\ cmd' = [cmd EXCEPT ![k].pc = "save", ![k].old = guilds[cmd[k].guild]]
    /\ UNCHANGED << botVars, config_file, data, data_lock >>

\* config_w.save(): the file is opened with truncate, written through a
\* BufWriter whose drop ignores a failed flush
CmdSave(k) ==
    /\ cmd[k].pc = "save"
    /\ \E outcome \in SaveOutcomes :
          /\ config_file' =
                CASE outcome = "ok" -> [state |-> "written", guilds |-> guilds]
                  [] outcome = "open_err" -> config_file
                  [] OTHER -> [state |-> "truncated", guilds |-> NoFile.guilds]
          /\ IF outcome \in {"open_err", "write_err"}
                THEN /\ \E delivered \in BOOLEAN :
                          cmd' = [cmd EXCEPT ![k] = Finish(@, "save_error", delivered)]
                     /\ config_lock' = NoTask
                ELSE /\ cmd' = [cmd EXCEPT ![k].pc = "confirm"]
                     /\ config_lock' = NoTask
    /\ UNCHANGED << botVars, guilds, data, data_lock >>

CmdConfirm(k) ==
    /\ cmd[k].pc = "confirm"
    /\ \E delivered \in BOOLEAN :
          cmd' = [cmd EXCEPT ![k] = Finish(@, "updated", delivered)]
    /\ UNCHANGED << botVars, guilds, config_file, data, data_lock, config_lock >>

InitCfg ==
    /\ active_conversations = {}
    /\ now = 0
    /\ shard_of \in {f \in [Channels -> Shards] : f["C"] = 0}
    /\ rguard = [s \in Shards |-> {}]
    /\ wguard = [s \in Shards |-> NoTask]
    /\ pc = [t \in Procs |-> "idle"]
    /\ call = [t \in Procs |-> NoCall]
    /\ ret = [t \in Procs |-> NoRet]
    /\ to_remove = [t \in Procs |-> {}]
    /\ scan = [t \in Procs |-> 0]
    /\ msg = [t \in Procs |-> NoMsg]
    /\ has_active_convo = [t \in Procs |-> FALSE]
    /\ intent = [t \in Procs |-> "none"]
    /\ io = [t \in Procs |-> NoIo]
    /\ sent = [t \in Procs |-> {}]
    /\ received = 0
    /\ guilds = [g \in Guilds |-> NoGuildConfig]
    /\ config_file = NoFile
    /\ data \in SUBSET {StoreKey}
    /\ data_lock = {} /\ config_lock = NoTask /\ cmd = [k \in Cmds |-> NoCmd]
    /\ ai_in = NoInput
    /\ ai_out = NoOutput

NextCfg ==
    \E k \in Cmds :
        \/ CmdInvoke(k)
        \/ CmdPermissions(k)
        \/ CmdGuildId(k)
        \/ CmdOptions(k)
        \/ CmdDataRead(k)
        \/ CmdStore(k)
        \/ CmdUpdate(k)
        \/ CmdSave(k)
        \/ CmdConfirm(k)

SpecCfg == InitCfg /\ [][NextCfg]_vars

\* ===================================================================== claims
Others(m, c) == {e \in m : e.channel # c}

\* C1: under any interleaving of start, touch, end and sweep calls of several
\* users, every channel has at most one ConversationState in the registry.
C1_OneStatePerChannel ==
    \A c \in Channels : Cardinality(Get(active_conversations, c)) <= 1

\* a start has completed, the channel holds an entry, and another task is in a
\* start for the same channel on behalf of a user who is not its owner
C1_Witness ==
    \E t1 \in Tasks, t2 \in Tasks, c \in Channels :
        /\ t1 # t2
        /\ ret[t1].op = "start"
        /\ pc[t2] = "start" /\ call[t2].channel = c
        /\ \E e \in Get(active_conversations, c) : e.user_id # call[t2].user

\* C2: touch(channel, user): an entry of user is refreshed to now and true is
\* returned; an entry of another user is removed and false is returned, the
\* channel being empty right after; without an entry false is returned and the
\* registry is unchanged.  In particular the call returns in each case.
C2_TouchAsClaimed ==
    [][\A t \in Tasks :
        LET c == call[t].channel
            u == call[t].user
            cur == Get(active_conversations, c)
        IN /\ (pc[t] = "touch" /\ pc'[t] # "touch" /\ cur = {}) =>
                 /\ pc'[t] = "idle" /\ ret'[t] = [op |-> "touch", value |-> "false"]
                 /\ active_conversations' = active_conversations
           /\ (pc[t] = "touch" /\ pc'[t] # "touch" /\ HasActive(active_conversations, c, u)) =>
                 /\ pc'[t] = "idle" /\ ret'[t] = [op |-> "touch", value |-> "true"]
                 /\ Get(active_conversations', c) =
                       {[channel |-> c, user_id |-> u, last_activity |-> now]}
                 /\ Others(active_conversations', c) = Others(active_conversations, c)
           /\ (pc[t] = "touch" /\ pc'[t] # "touch" /\ cur # {}
                 /\ ~HasActive(active_conversations, c, u)) =>
                 \* the removal it goes on to can take the shard's lock
                 ~(pc'[t] = "touch_remove" /\ wguard'[shard_of[c]] = t)
           /\ (pc[t] = "touch_remove" /\ pc'[t] = "idle") =>
                 /\ ret'[t] = [op |-> "touch", value |-> "false"]
                 /\ Get(active_conversations', c) = {}
      ]_vars

\* C3: end(channel, user) removes the entry iff it exists and is owned by
\* user, and returns true exactly when it removed; otherwise the registry is
\* unchanged and false is returned.  In particular the call returns.
C3_EndAsClaimed ==
    [][\A t \in Tasks :
        LET c == call[t].channel
            u == call[t].user
        IN /\ (pc[t] = "end" /\ pc'[t] # "end" /\ ~HasActive(active_conversations, c, u)) =>
                 /\ pc'[t] = "idle" /\ ret'[t] = [op |-> "end", value |-> "false"]
                 /\ active_conversations' = active_conversations
           /\ (pc[t] = "end" /\ pc'[t] # "end" /\ HasActive(active_conversations, c, u)) =>
                 \* the removal it goes on to can take the shard's lock
                 ~(pc'[t] = "end_remove" /\ t \in rguard'[shard_of[c]])
           /\ (pc[t] = "end_remove" /\ pc'[t] = "idle") =>
                 /\ ret'[t] = [op |-> "end", value |-> "true"]
                 /\ Get(active_conversations', c) = {}
                 /\ Others(active_conversations', c) = Others(active_conversations, c)
      ]_vars

\* C4: a sweep removes only entries that are expired (now - last_activity >
\* timeout) at the moment it removes them, also while other tasks start,
\* touch and end conversations on the same channels.
C4_SweepRemovesOnlyExpired ==
    [][\A t \in Tasks : \A c \in Channels :
        (pc[t] = "sweep_remove" /\ c \in to_remove[t] /\ c \notin to_remove'[t]) =>
            \A e \in Get(active_conversations, c) : IsExpired(e, now, TimeoutMinutes)
      ]_vars

\* C5: no registry call waits forever on the registry's shard locks: no task
\* calls remove() on a key while it still holds a guard into that key's shard.
C5_NoSelfDeadlock == \A t \in Tasks : ~SelfBlocked(t)

\* C6: a message of the conversation's owner that is classified as a stop
\* ends the conversation: the entry is removed, the closure reply is sent and
\* the handling terminates without ever invoking generation.
C6_StopTerminates ==
    \A t \in Tasks :
        intent[t] = "stop" =>
            /\ pc[t] \in {"stop_get", "stop_remove", "done"}
            /\ io[t].gen = "none"
            /\ ~SelfBlocked(t)
            /\ (pc[t] = "done" => "closure" \in sent[t])

\* C7: when generation fails for a message, the fallback message is sent and,
\* whether or not it could be delivered, the entry of the message's channel is
\* gone when the handler finishes: has_active(channel, author) is false then.
C7_GenFailureEvicts ==
    /\ [](\A t \in Tasks :
            io[t].gen = "err" => pc[t] \in {"fallback", "gen_fail_remove", "done"})
    /\ [][\A t \in Tasks :
            (io[t].gen = "err" /\ pc[t] # "done" /\ pc'[t] = "done") =>
                /\ "fallback" \in sent'[t]
                /\ Get(active_conversations', msg[t].channel) = {}
                /\ ~HasActive(active_conversations', msg[t].channel, msg[t].author)
       ]_vars

\* the handler of a message of the conversation's owner has finished after a
\* failed generation whose fallback could not be delivered either
C7_Witness ==
    \E t \in Tasks :
        /\ pc[t] = "done" /\ has_active_convo[t]
        /\ io[t] = [gen |-> "err", deliver |-> "fail"]
        /\ sent[t] = {"fallback"}

\* C8: when generation succeeds and the reply cannot be delivered, the entry
\* of the channel is removed; when the reply is delivered the handler leaves
\* the registry as it is.
C8_DeliveryFailureEvicts ==
    [][\A t \in Tasks :
        /\ (pc[t] = "reply" /\ pc'[t] # "reply" /\ io'[t].deliver = "fail") =>
               pc'[t] = "send_fail_remove"
        /\ (pc[t] = "send_fail_remove" /\ pc'[t] = "done") =>
               Get(active_conversations', msg[t].channel) = {}
        /\ (pc[t] = "reply" /\ pc'[t] = "done") =>
               /\ io'[t] = [gen |-> "ok", deliver |-> "ok"]
               /\ active_conversations' = active_conversations
      ]_vars

\* a handler has finished after its generated reply could not be delivered
C8_Witness ==
    \E t \in Tasks :
        /\ pc[t] = "done"
        /\ io[t] = [gen |-> "ok", deliver |-> "fail"]
        /\ Get(active_conversations, msg[t].channel) = {}

\* C9: a message of V that does not trigger a start, sent in a channel whose
\* conversation is owned by another user, evicts that entry and gets no reply.
C9_MismatchEvicts ==
    [][\A t \in Tasks :
        (/\ pc[t] # "done" /\ pc'[t] = "done" /\ intent'[t] = "ignore"
         /\ \E e \in Get(active_conversations, msg[t].channel) : e.user_id # msg[t].author)
        => /\ Get(active_conversations', msg[t].channel) = {}
           /\ sent'[t] = {}
      ]_vars

\* C10: a message for which the respond decision is false has no effect once
\* the opening sweep is over: no reply, no generation, no registry change.
C10_NoRespondNoEffect ==
    /\ [](\A t \in Tasks :
            intent[t] = "ignore" =>
                pc[t] = "done" /\ sent[t] = {} /\ io[t] = NoIo /\ ~has_active_convo[t])
    /\ [][\A t \in Tasks :
            (pc[t] = "has_active" /\ intent'[t] = "ignore") =>
                active_conversations' = active_conversations
       ]_vars

\* an ignored message has been handled in a channel that holds a conversation
C10_Witness ==
    \E t \in Tasks :
        /\ pc[t] = "done" /\ intent[t] = "ignore"
        /\ Get(active_conversations, msg[t].channel) # {}

\* C11: a start-triggering message of U in a channel without a conversation of
\* U inserts the entry (channel, U) before generation is invoked, generation
\* is invoked exactly once, and after a delivered reply (channel, U) is still
\* the active conversation when no other message or sweep has interfered.
C11_StartThenGenerate ==
    /\ [](\A t \in Tasks :
            intent[t] = "start" =>
                /\ pc[t] \in {"insert", "gen", "reply", "fallback",
                              "send_fail_remove", "gen_fail_remove", "done"}
                /\ (pc[t] = "insert" => io[t] = NoIo /\ sent[t] = {})
                /\ (pc[t] = "gen" => io[t] = NoIo)
                /\ (received = 1 /\ pc[t] = "done" /\ io[t] = [gen |-> "ok", deliver |-> "ok"]
                      => /\ sent[t] = {"reply"}
                         /\ HasActive(active_conversations, msg[t].channel, msg[t].author)))
    /\ [][\A t \in Tasks :
            /\ (pc[t] = "insert" /\ pc'[t] # "insert") =>
                   /\ pc'[t] = "gen"
                   /\ Get(active_conversations', msg[t].channel) =
                         {[channel |-> msg[t].channel, user_id |-> msg[t].author,
                           last_activity |-> now]}
            \* generation is not invoked a second time for the same message
            /\ (io[t].gen # "none" /\ received' = received) => io'[t].gen = io[t].gen
       ]_vars

\* the only message of the run started a conversation and got its reply
C11_Witness ==
    \E t \in Tasks :
        /\ received = 1 /\ pc[t] = "done" /\ intent[t] = "start"
        /\ io[t] = [gen |-> "ok", deliver |-> "ok"]
        /\ HasActive(active_conversations, msg[t].channel, msg[t].author)

\* C12: a live dialogue is always continued: should_respond_to_message
\* answers true, without a remote call, whenever the registry it is given
\* holds the author as the channel's active user, and the handler of a message
\* of the active user that is not a stop goes on to the generation call
\* whatever the content and whatever a start check would say.
C12_LiveDialogueContinues ==
    /\ (ai_out.fn = "should_respond_to_message" /\ ai_in.owner = ai_in.author) =>
           ai_out.res = [kind |-> "ok", remote_called |-> FALSE, value |-> TRUE]
    /\ (ai_out.fn = "respond_decision" /\ ai_out.res.active) =>
           ai_out.res.next = "gen"

\* the active user sent chatter that no trigger matches, the remote answer
\* would have been NO, and the answer was still true
C12_Witness ==
    /\ ai_out.fn = "should_respond_to_message"
    /\ ai_in.owner = ai_in.author
    /\ ai_in.remote = [kind |-> "text", body |-> << "N", "O" >>]
    /\ ~FallbackShouldRespond(ai_in.content, BotName)
    /\ ai_out.res.value

\* the start rule as documented: mention patterns, domain keywords, help
\* phrases and the three-clause decision
Matches(content_lower, pats) == \E pat \in pats : Contains(content_lower, pat)

ClaimedStart(content, bot_name) ==
    LET content_lower == Trim(ToLowercase(content))
        mention == Contains(content_lower, ToLowercase(bot_name))
        keyword == Matches(content_lower,
                           { << "r", "o", "b", "l", "o", "x" >>, << "l", "u", "a", "u" >>, << "s", "c", "r", "i", "p", "t" >>, << "s", "c", "r", "i", "p", "t", "i", "n", "g" >> })
        help == Matches(content_lower,
                        { << "h", "e", "l", "p", " ", "m", "e" >>, << "h", "o", "w", " ", "d", "o", " ", "i" >>, << "c", "a", "n", " ", "y", "o", "u" >>, << "w", "h", "a", "t", " ", "i", "s" >>,
                          << "e", "x", "p", "l", "a", "i", "n" >> })
    IN \/ mention
       \/ help /\ keyword
       \/ Len(content_lower) > 10 /\ keyword /\ Contains(content_lower, << "?" >>)

\* C13: with no active conversation the local start heuristic answers true
\* exactly when a direct mention matched, or a help phrase and a domain keyword
\* matched, or the message is longer than 10 characters, has a domain keyword
\* and a question mark; a lone keyword or a lone help phrase does not start.
C13_StartRule ==
    ai_out.fn = "fallback_should_respond" =>
        ai_out.res = ClaimedStart(ai_in.content, BotName)

\* the stop rule as documented
ClaimedStop(content) ==
    LET content_lower == Trim(ToLowercase(content))
        farewells == { << "b", "y", "e" >>, << "g", "o", "o", "d", "b", "y", "e" >>, << "s", "t", "o", "p" >>, << "d", "o", "n", "e" >>, << "n", "e", "v", "e", "r", "m", "i", "n", "d" >> }
        thanks == { << "t", "h", "a", "n", "k" >>, << "t", "h", "x" >>, << " ", "t", "y", " " >> }
        exclusions == { << "h", "o", "w" >>, << "w", "h", "a", "t" >>, << "c", "a", "n", " ", "y", "o", "u" >>, << "h", "e", "l", "p" >> }
    IN \/ \E f \in farewells :
             \/ content_lower = f
             \/ StartsWith(content_lower, f \o << " " >>)
             \/ EndsWith(content_lower, << " " >> \o f)
       \/ /\ Matches(content_lower, thanks)
          /\ ~Contains(content_lower, << "?" >>)
          /\ ~Matches(content_lower, exclusions)
          /\ Len(content_lower) < 50

\* C14: should_stop is a deterministic function of the content alone: true
\* exactly when the folded, trimmed content equals, starts with or ends with a
\* farewell phrase, or is a short thanks without question mark or exclusion
\* word.
C14_StopRule ==
    ai_out.fn = "should_stop_conversation" =>
        ai_out.res = [kind |-> "ok", value |-> ClaimedStop(ai_in.content)]

\* C15: should_respond_to_message never returns an error, and whenever the
\* remote call fails, times out, returns a non-success status or a payload
\* from which no YES/NO answer can be read, the result is that of
\* fallback_should_respond(content, bot_name).
C15_RespondFallsBack ==
    ai_out.fn = "should_respond_to_message" =>
        /\ ai_out.res.kind = "ok"
        /\ (ai_out.res.remote_called /\ ai_in.remote.kind # "text") =>
               ai_out.res.value = FallbackShouldRespond(ai_in.content, BotName)

\* C16: the remote stop classification never propagates an error: on a send
\* failure, a timeout, a non-success status or an unparsable body the function
\* returns a boolean decision instead of Err.
C16_StopNeverErr ==
    ai_out.fn = "should_stop_conversation" => ai_out.res.kind = "ok"

\* the fallback message each error category is documented to get
ClaimedFallback(kind) ==
    CASE kind = "timeout" -> "Request timed out. Please try again."
      [] kind \in {"status_err", "bad_json", "no_text"} ->
            "I'm experiencing technical difficulties. Please try again later."
      [] OTHER -> "I'm having trouble processing your request right now."

\* C17: the fallback message after a failed generation is selected by error
\* category: timeout -> "Request timed out...", non-2xx status or malformed
\* payload -> "I'm experiencing technical difficulties...", anything else ->
\* "I'm having trouble processing your request right now.".
C17_FallbackByCategory ==
    ai_out.fn = "fallback_message" =>
        ai_out.res.message = ClaimedFallback(ai_in.remote.kind)

\* C18: the text generate_response returns never exceeds 2000 characters: a
\* text of at most 2000 characters comes back unchanged, a longer one as its
\* first 1997 characters followed by "...".
C18_TruncatedTo2000 ==
    (ai_out.fn = "generate_response" /\ ai_in.remote.kind = "text") =>
        /\ ai_out.res.kind = "ok"
        /\ CharLen(ai_in.text) <= DiscordLimit =>
               (ai_out.res.text = ai_in.text /\ ~ai_out.res.marker)
        /\ CharLen(ai_in.text) > DiscordLimit =>
               (ai_out.res.marker /\ CharLen(ai_out.res.text) = TruncateAt
                /\ CharLen(ai_out.res.text) + MarkerLen = DiscordLimit)

\* C20: within the handling of one message, the step that follows the
\* has-active check (stop, touch) still finds the entry the check saw, and a
\* message classified as a stop never gets a generated reply.
C20_ConsistentSnapshot ==
    /\ [](\A t \in Tasks : intent[t] = "stop" => io[t].gen = "none")
    /\ [][\A t \in Tasks :
            (pc[t] \in {"stop_get", "touch_msg"} /\ pc'[t] # pc[t]) =>
                HasActive(active_conversations, msg[t].channel, msg[t].author)
       ]_vars

\* C19: every conversation is eventually removed after inactivity beyond the
\* timeout, even if no further message arrives: an entry that is expired is
\* eventually gone (or replaced by a fresh one) thanks to the periodic sweep.
ExpiredEntry(c) ==
    \E e \in Get(active_conversations, c) : IsExpired(e, now, TimeoutMinutes)

C19_ExpiredEventuallyRemoved ==
    \A c \in Channels : ExpiredEntry(c) ~> ~ExpiredEntry(c)

\* the tasks other than t that handle a start-triggering message of another
\* user in the same channel and have applied their insert
StartedBefore(t) ==
    {o \in Tasks \ {t} :
        /\ intent[o] = "start" /\ pc[o] # "insert"
        /\ msg[o].channel = msg[t].channel /\ msg[o].author # msg[t].author}

\* C21: two users send start-triggering messages in the same idle channel at
\* nearly the same time: last write wins.  The insert applied last leaves the
\* channel with exactly one entry, owner and timestamp both those of the last
\* inserter, and no step ever leaves an entry whose owner and timestamp come
\* from different handlers.
C21_LastWriteWins ==
    /\ [](\A c \in Channels : Cardinality(Get(active_conversations, c)) <= 1)
    /\ [][\A t \in Tasks :
            (pc[t] = "insert" /\ pc'[t] # "insert" /\ StartedBefore(t) # {}) =>
                /\ ~has_active_convo[t]
                /\ \A e \in Get(active_conversations', msg[t].channel) :
                       e.user_id = msg[t].author /\ e.last_activity = now
                /\ Get(active_conversations', msg[t].channel) # {}
       ]_vars
    /\ [][\A e \in active_conversations' \ active_conversations :
            \E t \in Tasks :
                /\ pc[t] \in {"insert", "touch_msg"} /\ pc'[t] # pc[t]
                /\ e = [channel |-> msg[t].channel, user_id |-> msg[t].author,
                        last_activity |-> now]
       ]_vars

\* both handlers found the channel idle, both have inserted at different
\* times, and the entry is the later one's
C21_Witness ==
    \E t \in Tasks :
        /\ StartedBefore(t) # {}
        /\ intent[t] = "start" /\ pc[t] = "gen"
        /\ \A o \in StartedBefore(t) : ~has_active_convo[o] /\ pc[o] = "gen"
        /\ Get(active_conversations, msg[t].channel) =
              {[channel |-> msg[t].channel, user_id |-> msg[t].author,
                last_activity |-> ClockStep]}

\* C25: start(channel, user) leaves the channel with exactly the entry
\* {user_id = user, last_activity = now} whatever was stored before: an entry
\* of another user is replaced, and for the same user the registry is the one
\* touch would have produced; other channels are left alone.
C25_StartOverwrites ==
    [][\A t \in Tasks :
        LET c == call[t].channel
            u == call[t].user
        IN (pc[t] = "start" /\ pc'[t] # "start") =>
              /\ Get(active_conversations', c) =
                    {[channel |-> c, user_id |-> u, last_activity |-> now]}
              /\ Others(active_conversations', c) = Others(active_conversations, c)
              /\ (\E e \in active_conversations : e.channel = c /\ e.user_id = u) =>
                    active_conversations' =
                        {IF e.channel = c THEN [e EXCEPT !.last_activity = now] ELSE e :
                            e \in active_conversations}
      ]_vars

\* a start has returned with the clock past zero, and another start is about
\* to overwrite an older entry of its own user
C25_Witness ==
    \E t \in Tasks, o \in Tasks :
        /\ ret[o].op = "start" /\ now > 0
        /\ pc[t] = "start"
        /\ \E e \in active_conversations :
              /\ e.channel = call[t].channel /\ e.user_id = call[t].user
              /\ e.last_activity < now

\* C26: has_active(channel, user) is true if and only if the registry holds an
\* entry of the channel whose user_id is user, and the call leaves the
\* registry unchanged.
C26_HasActiveExact ==
    [][\A t \in Tasks :
        (pc[t] = "has_active" /\ call[t].op = "has_active" /\ pc'[t] # "has_active") =>
            /\ ret'[t].op = "has_active"
            /\ (ret'[t].value = "true") <=>
                  (\E e \in active_conversations :
                      e.channel = call[t].channel /\ e.user_id = call[t].user)
            /\ ret'[t].value \in {"true", "false"}
            /\ active_conversations' = active_conversations
      ]_vars

\* has_active has answered false for a channel that holds a conversation
C26_Witness ==
    \E t \in Tasks :
        /\ ret[t] = [op |-> "has_active", value |-> "false"]
        /\ active_conversations # {}
        /\ \A e \in active_conversations : e.channel = "C" /\ e.user_id = "V"

\* the (channel, owner) pairs of a registry
Owners(m) == {<< e.channel, e.user_id >> : e \in m}

\* C24: per channel the registry follows the state machine: an entry is
\* created only while handling a message whose respond decision is true, with
\* that message's author as owner; a non-stop message of the owner keeps the
\* owner and only refreshes last_activity; touch, stop, sweep and the failure
\* paths never create an entry.
C24_StateMachine ==
    [][/\ \A o \in Owners(active_conversations') \ Owners(active_conversations) :
            \E t \in Tasks :
                /\ pc[t] = "insert" /\ pc'[t] = "gen"
                /\ intent[t] = "start" /\ ~has_active_convo[t]
                /\ o = << msg[t].channel, msg[t].author >>
       /\ \A t \in Tasks :
            (pc[t] = "touch_msg" /\ pc'[t] # "touch_msg") =>
                /\ intent[t] = "continue"
                /\ Owners(active_conversations') = Owners(active_conversations)
                /\ Others(active_conversations', msg[t].channel) =
                      Others(active_conversations, msg[t].channel)
                /\ (<< msg[t].channel, msg[t].author >> \in Owners(active_conversations)) =>
                      Get(active_conversations', msg[t].channel) =
                         {[channel |-> msg[t].channel, user_id |-> msg[t].author,
                           last_activity |-> now]}
       /\ \A t \in Tasks :
            (pc[t] \in RemovePcs \cup {"touch_msg", "stop_get", "sweep", "has_active"}
               /\ pc'[t] # pc[t]) =>
                Owners(active_conversations') \subseteq Owners(active_conversations)
      ]_vars

\* the owner's second message was not a stop: the entry made at time 0 was
\* refreshed and generation comes next
C24_Witness ==
    \E t \in Tasks :
        /\ intent[t] = "continue" /\ pc[t] = "gen" /\ now = ClockStep
        /\ Get(active_conversations, msg[t].channel) =
              {[channel |-> msg[t].channel, user_id |-> msg[t].author,
                last_activity |-> ClockStep]}

\* C27: an expired conversation is never treated as active: a message of U in
\* C whose entry (C, U) has been inactive for more than the timeout when the
\* has-active check reads it is handled as a message without an active
\* conversation (never as a stop or a continuation).
C27_ExpiredNotActive ==
    [][\A t \in Tasks :
        (/\ pc[t] = "has_active" /\ call[t].op = "message" /\ pc'[t] # "has_active"
         /\ \E e \in Get(active_conversations, msg[t].channel) :
               e.user_id = msg[t].author /\ now - e.last_activity > TimeoutMinutes)
        => /\ ~has_active_convo'[t]
           /\ intent'[t] \in {"start", "ignore"}
      ]_vars

\* C28: failure eviction follows Registry.end: when generation or delivery
\* fails for a message of U in C, the entry of C is removed only if U owns it;
\* a conversation started by V meanwhile stays.
C28_FailureEvictsOwnOnly ==
    [][\A t \in Tasks :
        (/\ pc[t] \in {"send_fail_remove", "gen_fail_remove"} /\ pc'[t] = "done"
         /\ \E e \in Get(active_conversations, msg[t].channel) : e.user_id # msg[t].author)
        => active_conversations' = active_conversations
      ]_vars

\* C29: when U owns the conversation of C and V sends a start-triggering
\* message in C, the entry becomes V's with a fresh last_activity (replaced,
\* not merged), and a message U sends next is handled as having no active
\* conversation.
C29_TakeOver ==
    [][\A t \in Tasks :
        LET c == msg[t].channel
            foreign == \E e \in Get(active_conversations, c) : e.user_id # msg[t].author
        IN /\ (pc[t] = "insert" /\ pc'[t] # "insert" /\ foreign) =>
                 active_conversations' =
                    {e \in active_conversations : e.channel # c}
                       \cup {[channel |-> c, user_id |-> msg[t].author,
                              last_activity |-> now]}
           /\ (pc[t] = "has_active" /\ call[t].op = "message" /\ pc'[t] # "has_active"
                 /\ foreign) =>
                 /\ ~has_active_convo'[t]
                 /\ intent'[t] \in {"start", "ignore"}
                 /\ pc'[t] \in {"insert", "done"}
      ]_vars

\* U started, V took the channel over, and U's next message was handled as
\* having no active conversation
C29_Witness ==
    \E t \in Tasks, o \in Tasks :
        /\ t # o /\ received = MaxMsgs
        /\ msg[t] = [channel |-> "C", author |-> "U"]
        /\ msg[o] = [channel |-> "C", author |-> "V"]
        /\ intent[o] = "start" /\ pc[o] = "done"
        /\ intent[t] = "ignore" /\ pc[t] = "done" /\ ~has_active_convo[t]
        /\ Get(active_conversations, "C") =
              {[channel |-> "C", user_id |-> "V", last_activity |-> ClockStep]}

\* C23: every message-handling task eventually finishes: with every external
\* call returning within its timeout, the handler of a message reaches one of
\* its terminal outcomes under every interleaving with the sweep task.
C23_HandlerFinishes ==
    \A t \in {"t1"} : (pc[t] \notin {"idle", "done"}) ~> (pc[t] = "done")

\* the guild's mode does not let the bot talk in channel c
AiDisabledIn(c) ==
    LET conf == GetGuildConfig(guilds, "G")
    IN \/ conf.mode = "Off"
       \/ conf.mode = "Specific" /\ c \notin conf.allowed_ids

\* C30: the per-guild AI mode is consulted before the lifecycle manager runs:
\* for a message in a guild whose mode is Off, or Specific with the channel
\* not in allowed_ids, the handler starts no conversation, invokes no
\* generation and sends no reply.
C30_ModeGatesHandler ==
    /\ \A t \in Tasks :
          (pc[t] # "idle" /\ AiDisabledIn(msg[t].channel)) =>
              /\ io[t] = NoIo /\ sent[t] = {}
              /\ pc[t] \notin {"insert", "gen", "reply", "fallback"}
    /\ \A c \in Channels : AiDisabledIn(c) => Get(active_conversations, c) = {}

\* the positions at which a handler waits for an external call: remote
\* classification, generation, delivery of a reply
Suspended == {"m_classify", "m_gen", "m_reply", "m_fallback", "gen", "reply", "fallback"}

\* C22: while a message handler is suspended on an external call it holds no
\* reference or lock into the registry, and a handler never sits on a guard
\* that keeps the handlers of other messages from the registry.
C22_NoGuardWhileSuspended ==
    \A t \in Tasks : \A s \in Shards :
        HoldsGuard(t, s) => (pc[t] \notin Suspended /\ ~SelfBlocked(t))

\* C31: in the handler of main.rs a failed generation always evicts the
\* conversation: once the handler of a message of U in C has finished after
\* generate_response failed, or after the generated reply could not be
\* delivered, the registry no longer maps C to U.
C31_MainFailureEvicts ==
    [][\A t \in Tasks :
        (/\ pc[t] \in {"m_reply", "m_fallback"} /\ pc'[t] = "done"
         /\ (io'[t].gen = "err" \/ io'[t].deliver = "fail"))
        => ~(\E e \in active_conversations' :
                e.channel = msg[t].channel /\ e.user_id = msg[t].author)
      ]_vars

\* C34: handling a message in channel C leaves the entry of every other
\* channel D unchanged unless the entry of D is expired: whatever a handler
\* step writes or removes outside its message's channel is an expired entry.
C34_OtherChannelsUntouched ==
    [][\A t \in Tasks :
        (pc'[t] # pc[t] /\ pc[t] \notin {"idle", "done"}) =>
            \A d \in Channels \ {msg[t].channel} :
                \/ Get(active_conversations', d) = Get(active_conversations, d)
                \/ \A e \in Get(active_conversations, d) :
                       now - e.last_activity > TimeoutMinutes
      ]_vars

\* C33: messages authored by a bot are ignored entirely: handling one never
\* creates, refreshes or removes a registry entry, never runs the sweep, never
\* invokes classification or generation, and sends no reply.
C33_BotsIgnored ==
    /\ [](\A t \in Tasks :
            msg[t].author \in Bots =>
                /\ pc[t] \in {"idle", "done"}
                /\ intent[t] = "none" /\ io[t] = NoIo /\ sent[t] = {}
                /\ to_remove[t] = {} /\ ~has_active_convo[t])
    /\ [](\A e \in active_conversations : e.user_id \notin Bots)
    /\ [][\A t \in Tasks :
            (received' # received /\ msg'[t].author \in Bots /\ pc'[t] = "done") =>
                active_conversations' = active_conversations
       ]_vars

\* a bot has written into a channel that holds a user's conversation, and the
\* conversation is as it was
C33_Witness ==
    \E t \in Tasks :
        /\ msg[t] = [channel |-> "C", author |-> "B"] /\ pc[t] = "done"
        /\ received = 2
        /\ active_conversations =
              {[channel |-> "C", user_id |-> "U", last_activity |-> 0]}

\* the command is between its invocation and its return
Running(k) == cmd[k].pc \notin {"idle", "done"}

\* the last follow-up of a command that has returned
LastFollowup(c) == c.followups[Len(c.followups)]

\* C36: the aiconfig command changes a guild's configuration only for an
\* invoker with the Administrator permission inside a guild: no step of an
\* invocation by a member without the permission, or outside a guild, changes
\* the stored configuration or the configuration file, and every step that
\* changes one of them belongs to an administrator's invocation in a guild
C36_AdminInGuildOnly ==
    /\ [][\A k \in Cmds :
            (Running(k) /\ (cmd[k].member # "admin" \/ cmd[k].guild \notin Guilds)) =>
                /\ guilds' = guilds /\ config_file' = config_file
                /\ config_lock' = NoTask
         ]_vars
    /\ [][(guilds' # guilds \/ config_file' # config_file) =>
            \E k \in Cmds : /\ Running(k)
                            /\ cmd[k].member = "admin" /\ cmd[k].guild \in Guilds
         ]_vars

\* a member without the permission has been turned away and the
\* configuration an administrator stored before is still in place
C36_Witness ==
    \E k \in Cmds :
        /\ cmd[k].pc = "done"
        /\ cmd[k].followups = << [content |-> "not_admin", delivered |-> TRUE] >>
        /\ guilds["G"] = [mode |-> "Global", allowed_ids |-> {}]
        /\ config_file = [state |-> "written", guilds |-> guilds]

\* a guild configuration as the command is meant to write it
WellFormed(config) ==
    /\ config.mode = "Specific" => config.allowed_ids # {}
    /\ config.mode \in {"Off", "Global"} => config.allowed_ids = {}

\* the request names no mode the command knows
UnrecognisedMode(c) == c.mode_str \notin {<< "o", "f", "f" >>, << "g", "l", "o", "b", "a", "l" >>, << "s", "p", "e", "c", "i", "f", "i", "c" >>}

\* the request has no token of the form <#..> and no number
NoParsableTarget(c) ==
    \/ ~c.targets.some
    \/ \A tok \in Ids(SplitWhitespace(c.targets.val)) :
          /\ ~(StartsWith(tok, << "<", "#" >>) /\ EndsWith(tok, << ">" >>))
          /\ ~IsU64(tok)

\* C35: every guild configuration the aiconfig command writes, in memory and
\* in the file, has a non-empty allowed_ids when its mode is Specific and an
\* empty one when its mode is Off or Global; a request for Specific mode
\* without a parsable target, or with an unrecognised mode, changes no
\* configuration in any of its steps
C35_WrittenConfigWellFormed ==
    /\ [](\A g \in Guilds :
            /\ guilds[g] # NoGuildConfig => WellFormed(guilds[g])
            /\ config_file.guilds[g] # NoGuildConfig => WellFormed(config_file.guilds[g]))
    /\ [][\A k \in Cmds :
            (/\ Running(k)
             /\ \/ UnrecognisedMode(cmd[k])
                \/ cmd[k].mode_str = << "s", "p", "e", "c", "i", "f", "i", "c" >> /\ NoParsableTarget(cmd[k])) =>
                /\ guilds' = guilds /\ config_file' = config_file
                /\ cmd'[k].pc \in {"guild_id", "options", "done"}
         ]_vars

\* the guild is in Specific mode with channel 1, and a later request for
\* Specific mode without a parsable target has been refused
C35_Witness ==
    \E k \in Cmds :
        /\ cmd[k].pc = "done"
        /\ cmd[k].followups = << [content |-> "need_targets", delivered |-> TRUE] >>
        /\ guilds["G"] = [mode |-> "Specific", allowed_ids |-> {<< "1" >>}]
        /\ config_file = [state |-> "written", guilds |-> guilds]

C37_FailedSaveKeepsOld ==
    [][\A k \in Cmds :
         (cmd[k].pc = "save" /\ cmd'[k].pc = "done") =>
             /\ LastFollowup(cmd'[k]).content = "save_error"
             /\ guilds'[cmd[k].guild] = cmd[k].old
      ]_vars

====
